---------------------------- MODULE Spec2Model ----------------------------
(***************************************************************************)
(* Model of the FastGST site's two client-side modules:                    *)
(*   - RPAK, the time-windowed access-key module (src/_includes/rpak.js)   *)
(*   - TaxLookupAPI, the HTTP client (src/_includes/tax-lookup-api.js)     *)
(*                                                                         *)
(* JavaScript strings are sequences of UTF-16 code units (naturals).       *)
(* A call that may throw is an operator returning Ok(v) or Throw(m).       *)
(* TLC's integers are 32-bit, so the clock is drawn from instants of       *)
(* 1970-71: the calendar arithmetic is the real one and every number the   *)
(* code builds (validity digits prepended to epoch + DDMMYYYY) is exact.   *)
(***************************************************************************)
EXTENDS Integers, Sequences, FiniteSets, TLC

VARIABLES
    env,      \* which base64 primitive the host defines: "btoa", "Buffer", "none"
    clock,    \* Date.now() in whole seconds since the epoch
    ticks,    \* number of clock advances so far (bounds the run)
    gen,      \* the last RPAK.generate call: inputs, instant, outcome
    val,      \* the last RPAK.validate call: argument, instant, outcome
    calls,    \* TaxLookupAPI invocations: a sequence of call records
    fetches   \* fetch() requests issued: a sequence of request records

vars == <<env, clock, ticks, gen, val, calls, fetches>>

-----------------------------------------------------------------------------
(* Outcomes of a call *)

Ok(v) == [ok |-> TRUE, v |-> v]

Throw(m) == [ok |-> FALSE, err |-> m]

-----------------------------------------------------------------------------
(* JavaScript values handed to the public functions *)

JSInt(n) == [t |-> "number", k |-> "int", n |-> n]

\* a non-integer number ip.fp, e.g. JSDec(1, <<53>>) is 1.5
JSDec(ip, fp) == [t |-> "number", k |-> "dec", n |-> ip, fp |-> fp]

JSNaN == [t |-> "number", k |-> "NaN"]

JSStr(s) == [t |-> "string", s |-> s]

JSUndefined == [t |-> "undefined"]

JSNull == [t |-> "object", k |-> "null"]

JSObject == [t |-> "object", k |-> "object"]

typeof(x) == x.t

\* ToBoolean: undefined, null, "", 0 and NaN are falsy
Truthy(x) ==
    CASE x.t = "undefined" -> FALSE
      [] x.t = "object" -> x.k # "null"
      [] x.t = "string" -> Len(x.s) > 0
      [] x.t = "number" -> IF x.k = "NaN" THEN FALSE
                           ELSE IF x.k = "int" THEN x.n # 0 ELSE TRUE

\* x < 1 for a number x (any comparison with NaN is false)
LessThanOne(x) == IF x.k = "NaN" THEN FALSE ELSE x.n < 1

-----------------------------------------------------------------------------
(* Characters *)

Pipe == 124

XorKey == 42

Zero == 48

Minus == 45

Plus == 43

Dot == 46

PadEq == 61

Replacement == 65533

\* "RPAK_"
Prefix == <<82, 80, 65, 75, 95>>

Digits == 48..57

\* StrWhiteSpaceChar: what parseInt and trim() skip
WhiteSpace == {9, 10, 11, 12, 13, 32, 160, 5760, 8232, 8233, 8239, 8287, 12288, 65279}
                  \cup (8192..8202)

\* the whitespace atob() removes
AsciiWhiteSpace == {9, 10, 12, 13, 32}

-----------------------------------------------------------------------------
(* String primitives *)

RECURSIVE NumDigits(_)
NumDigits(n) == IF n < 10 THEN <<Zero + n>> ELSE Append(NumDigits(n \div 10), Zero + (n % 10))

\* String(x) for a number
NumberToString(x) ==
    CASE x.k = "NaN" -> <<78, 97, 78>>
      [] x.k = "int" -> IF x.n < 0 THEN <<Minus>> \o NumDigits(-x.n) ELSE NumDigits(x.n)
      [] x.k = "dec" -> NumDigits(x.n) \o <<Dot>> \o x.fp

IntToString(n) == NumberToString(JSInt(n))

RECURSIVE padStart(_, _, _)
padStart(s, n, c) == IF Len(s) >= n THEN s ELSE padStart(<<c>> \o s, n, c)

substring(s, from, to) ==
    LET a == IF from > Len(s) THEN Len(s) ELSE from
        b == IF to > Len(s) THEN Len(s) ELSE to
    IN  SubSeq(s, a + 1, b)

substringFrom(s, from) == substring(s, from, Len(s))

\* a faulty startsWith that compares lengths only
StartsWithLength(s, p) == Len(s) >= Len(p)

startsWith(s, p) == Len(s) >= Len(p) /\ SubSeq(s, 1, Len(p)) = p

RECURSIVE split(_, _)
split(s, sep) ==
    IF \A i \in 1..Len(s) : s[i] # sep THEN <<s>>
    ELSE LET i == CHOOSE j \in 1..Len(s) : s[j] = sep /\ \A k \in 1..(j-1) : s[k] # sep
         IN  <<SubSeq(s, 1, i - 1)>> \o split(SubSeq(s, i + 1, Len(s)), sep)

RECURSIVE join(_, _)
join(parts, sep) ==
    IF Len(parts) = 0 THEN <<>>
    ELSE IF Len(parts) = 1 THEN parts[1]
    ELSE parts[1] \o <<sep>> \o join(Tail(parts), sep)

RECURSIVE SkipWhiteSpace(_)
SkipWhiteSpace(s) ==
    IF Len(s) > 0 /\ s[1] \in WhiteSpace THEN SkipWhiteSpace(Tail(s)) ELSE s

RECURSIVE DropTrailingWhiteSpace(_)
DropTrailingWhiteSpace(s) ==
    IF Len(s) > 0 /\ s[Len(s)] \in WhiteSpace
    THEN DropTrailingWhiteSpace(SubSeq(s, 1, Len(s) - 1)) ELSE s

trim(s) == DropTrailingWhiteSpace(SkipWhiteSpace(s))

RECURSIVE DigitsValue(_, _)
DigitsValue(s, acc) ==
    IF Len(s) > 0 /\ s[1] \in Digits THEN DigitsValue(Tail(s), acc * 10 + (s[1] - Zero))
    ELSE acc

NaN == [nan |-> TRUE]

Num(n) == [nan |-> FALSE, n |-> n]

isNaN(x) == x.nan

\* parseInt(s, 10): leading white space, an optional sign, then the longest
\* run of decimal digits; NaN when there is no digit
parseInt(s) ==
    LET t == SkipWhiteSpace(s)
        signed == Len(t) > 0 /\ t[1] \in {Minus, Plus}
        sign == IF Len(t) > 0 /\ t[1] = Minus THEN -1 ELSE 1
        u == IF signed THEN Tail(t) ELSE t
    IN  IF Len(u) = 0 \/ u[1] \notin Digits THEN NaN
        ELSE Num(sign * DigitsValue(u, 0))

-----------------------------------------------------------------------------
(* The UTC calendar behind Date: getUTCDate, getUTCMonth, getUTCFullYear *)

SecondsPerDay == 86400

EpochYear == 1970

IsLeap(y) == (y % 4 = 0 /\ y % 100 # 0) \/ y % 400 = 0

DaysInYear(y) == IF IsLeap(y) THEN 366 ELSE 365

DaysInMonth(y, m) ==
    IF m = 2 THEN (IF IsLeap(y) THEN 29 ELSE 28)
    ELSE IF m \in {4, 6, 9, 11} THEN 30 ELSE 31

\* <<year, day of the year (from 0)>> of a day number counted from 1970-01-01
RECURSIVE YearFromDays(_, _)
YearFromDays(d, y) ==
    IF d < DaysInYear(y) THEN <<y, d>> ELSE YearFromDays(d - DaysInYear(y), y + 1)

\* <<month (from 1), day of the month (from 1)>>
RECURSIVE MonthFromDays(_, _, _)
MonthFromDays(d, y, m) ==
    IF d < DaysInMonth(y, m) THEN <<m, d + 1>>
    ELSE MonthFromDays(d - DaysInMonth(y, m), y, m + 1)

UTCDate(epoch) ==
    LET yd == YearFromDays(epoch \div SecondsPerDay, EpochYear)
        md == MonthFromDays(yd[2], yd[1], 1)
    IN  [year |-> yd[1], month |-> md[1], day |-> md[2]]

-----------------------------------------------------------------------------
(* Base64 and UTF-8, the host primitives rpak.js calls *)

RECURSIVE BitXor(_, _)
BitXor(a, b) ==
    IF a = 0 THEN b
    ELSE IF b = 0 THEN a
    ELSE ((a + b) % 2) + 2 * BitXor(a \div 2, b \div 2)

\* the base64 alphabet: A-Z a-z 0-9 + /
B64Char(i) ==
    IF i < 26 THEN 65 + i
    ELSE IF i < 52 THEN 97 + (i - 26)
    ELSE IF i < 62 THEN 48 + (i - 52)
    ELSE IF i = 62 THEN 43 ELSE 47

B64Alphabet == (65..90) \cup (97..122) \cup (48..57) \cup {43, 47}

B64Index(c) ==
    IF c \in 65..90 THEN c - 65
    ELSE IF c \in 97..122 THEN c - 97 + 26
    ELSE IF c \in 48..57 THEN c - 48 + 52
    ELSE IF c \in {43, 45} THEN 62 ELSE 63

RECURSIVE Base64Encode(_)
Base64Encode(b) ==
    IF Len(b) = 0 THEN <<>>
    ELSE IF Len(b) = 1 THEN
        <<B64Char(b[1] \div 4), B64Char((b[1] % 4) * 16), PadEq, PadEq>>
    ELSE IF Len(b) = 2 THEN
        <<B64Char(b[1] \div 4), B64Char((b[1] % 4) * 16 + b[2] \div 16),
          B64Char((b[2] % 16) * 4), PadEq>>
    ELSE <<B64Char(b[1] \div 4), B64Char((b[1] % 4) * 16 + b[2] \div 16),
           B64Char((b[2] % 16) * 4 + b[3] \div 64), B64Char(b[3] % 64)>>
         \o Base64Encode(SubSeq(b, 4, Len(b)))

\* bytes of a run of alphabet characters; a trailing group of 2 or 3
\* characters gives 1 or 2 bytes, a trailing single character none
RECURSIVE Base64Bytes(_)
Base64Bytes(c) ==
    IF Len(c) < 2 THEN <<>>
    ELSE LET i1 == B64Index(c[1])
             i2 == B64Index(c[2])
             b1 == i1 * 4 + i2 \div 16
         IN  IF Len(c) = 2 THEN <<b1>>
             ELSE LET i3 == B64Index(c[3])
                      b2 == (i2 % 16) * 16 + i3 \div 4
                  IN  IF Len(c) = 3 THEN <<b1, b2>>
                      ELSE <<b1, b2, (i3 % 4) * 64 + B64Index(c[4])>>
                           \o Base64Bytes(SubSeq(c, 5, Len(c)))

InvalidCharacterError == "InvalidCharacterError"

\* btoa: every code unit must be a byte
btoa(s) ==
    IF \E i \in 1..Len(s) : s[i] > 255 THEN Throw(InvalidCharacterError)
    ELSE Ok(Base64Encode(s))

\* atob: the forgiving-base64 decode of the HTML standard
atob(s) ==
    LET noWs == SelectSeq(s, LAMBDA c : c \notin AsciiWhiteSpace)
        n == Len(noWs)
        body == IF n % 4 = 0 /\ n >= 2 /\ noWs[n] = PadEq /\ noWs[n - 1] = PadEq
                    THEN SubSeq(noWs, 1, n - 2)
                ELSE IF n % 4 = 0 /\ n >= 1 /\ noWs[n] = PadEq
                    THEN SubSeq(noWs, 1, n - 1)
                ELSE noWs
    IN  IF Len(body) % 4 = 1 \/ \E i \in 1..Len(body) : body[i] \notin B64Alphabet
        THEN Throw(InvalidCharacterError)
        ELSE Ok(Base64Bytes(body))

IsHighSurrogate(c) == c \in 55296..56319

IsLowSurrogate(c) == c \in 56320..57343

\* Buffer.from(str): the UTF-8 bytes of a string; a lone surrogate is
\* written as U+FFFD
RECURSIVE Utf8Encode(_)
Utf8Encode(s) ==
    IF Len(s) = 0 THEN <<>>
    ELSE LET c == s[1] IN
        IF c < 128 THEN <<c>> \o Utf8Encode(Tail(s))
        ELSE IF c < 2048 THEN <<192 + c \div 64, 128 + (c % 64)>> \o Utf8Encode(Tail(s))
        ELSE IF IsHighSurrogate(c) /\ Len(s) >= 2 /\ IsLowSurrogate(s[2]) THEN
            LET cp == 65536 + (c - 55296) * 1024 + (s[2] - 56320)
            IN  <<240 + cp \div 262144, 128 + ((cp \div 4096) % 64),
                  128 + ((cp \div 64) % 64), 128 + (cp % 64)>>
                \o Utf8Encode(SubSeq(s, 3, Len(s)))
        ELSE IF IsHighSurrogate(c) \/ IsLowSurrogate(c) THEN
            <<239, 191, 189>> \o Utf8Encode(Tail(s))
        ELSE <<224 + c \div 4096, 128 + ((c \div 64) % 64), 128 + (c % 64)>>
             \o Utf8Encode(Tail(s))

CodeUnits(cp) ==
    IF cp < 65536 THEN <<cp>>
    ELSE <<55296 + (cp - 65536) \div 1024, 56320 + ((cp - 65536) % 1024)>>

\* buf.toString('utf-8'): the UTF-8 decoder, an ill-formed sequence read as
\* U+FFFD.  need is the number of continuation bytes still expected, lo..hi
\* the range the next one must lie in
RECURSIVE Utf8Decode(_, _, _, _, _, _)
Utf8Decode(b, i, cp, need, lo, hi) ==
    IF i > Len(b) THEN (IF need = 0 THEN <<>> ELSE <<Replacement>>)
    ELSE LET x == b[i] IN
        IF need = 0 THEN
            IF x < 128 THEN <<x>> \o Utf8Decode(b, i + 1, 0, 0, 128, 191)
            ELSE IF x \in 194..223 THEN Utf8Decode(b, i + 1, x - 192, 1, 128, 191)
            ELSE IF x \in 224..239 THEN
                Utf8Decode(b, i + 1, x - 224, 2,
                           IF x = 224 THEN 160 ELSE 128, IF x = 237 THEN 159 ELSE 191)
            ELSE IF x \in 240..244 THEN
                Utf8Decode(b, i + 1, x - 240, 3,
                           IF x = 240 THEN 144 ELSE 128, IF x = 244 THEN 143 ELSE 191)
            ELSE <<Replacement>> \o Utf8Decode(b, i + 1, 0, 0, 128, 191)
        ELSE IF x \notin lo..hi THEN <<Replacement>> \o Utf8Decode(b, i, 0, 0, 128, 191)
        ELSE IF need = 1 THEN
            CodeUnits(cp * 64 + (x - 128)) \o Utf8Decode(b, i + 1, 0, 0, 128, 191)
        ELSE Utf8Decode(b, i + 1, cp * 64 + (x - 128), need - 1, 128, 191)

\* Buffer.from(str, 'base64'): decoding stops at the first '=', a character
\* outside the alphabet (which here includes '-' and '_') is skipped
BufferFromBase64(s) ==
    LET stop == IF \E i \in 1..Len(s) : s[i] = PadEq
                THEN (CHOOSE i \in 1..Len(s) : s[i] = PadEq /\ \A j \in 1..(i-1) : s[j] # PadEq) - 1
                ELSE Len(s)
        legal == SelectSeq(SubSeq(s, 1, stop), LAMBDA c : c \in B64Alphabet \cup {45, 95})
    IN  Base64Bytes(legal)

-----------------------------------------------------------------------------
(* rpak.js: private helpers *)

\* Math.floor(Date.now() / 1000); the model's clock already counts seconds
getCurrentEpoch(now) == now

getTodaysDateUTC(now) ==
    LET d == UTCDate(now)
        day == padStart(IntToString(d.day), 2, Zero)
        month == padStart(IntToString(d.month), 2, Zero)
        year == IntToString(d.year)
    IN  day \o month \o year

formatValidity(validityInSeconds) == padStart(NumberToString(validityInSeconds), 2, Zero)

xorEncode(str) == [i \in 1..Len(str) |-> BitXor(str[i], XorKey)]

xorDecode(str) == [i \in 1..Len(str) |-> BitXor(str[i], XorKey)]

reverseString(str) == [i \in 1..Len(str) |-> str[Len(str) + 1 - i]]

encodeToBase64(e, str) ==
    LET xored == xorEncode(str)
    IN  IF e = "btoa" THEN btoa(xored)
        ELSE IF e = "Buffer" THEN Ok(Base64Encode(Utf8Encode(xored)))
        ELSE Throw("Base64 encoding not supported in this environment")

decodeFromBase64(e, str) ==
    IF e = "btoa" THEN
        LET decoded == atob(str)
        IN  IF decoded.ok THEN Ok(xorDecode(decoded.v)) ELSE decoded
    ELSE IF e = "Buffer" THEN
        Ok(xorDecode(Utf8Decode(BufferFromBase64(str), 1, 0, 0, 128, 191)))
    ELSE Throw("Base64 decoding not supported in this environment")

-----------------------------------------------------------------------------
(* rpak.js: public API *)

ValidityMessage == "Validity must be a positive number"

PayloadMessage == "Payload must be a non-empty string"

\* a faulty generate that takes the date of the local clock (UTC+05:30)
GenerateLocalDate(e, now, validityInSeconds, payload) ==
    IF typeof(validityInSeconds) # "number" \/ LessThanOne(validityInSeconds)
    THEN Throw(ValidityMessage)
    ELSE IF typeof(payload) # "string" \/ Len(payload.s) = 0
    THEN Throw(PayloadMessage)
    ELSE LET currentEpoch == getCurrentEpoch(now)
             todaysDate == getTodaysDateUTC(now + 19800)
             combined == currentEpoch + parseInt(todaysDate).n
             formattedValidity == formatValidity(validityInSeconds)
             prefixedValue == formattedValidity \o IntToString(combined)
             dataString == prefixedValue \o <<Pipe>> \o payload.s
             reversed == reverseString(dataString)
             base64Encoded == encodeToBase64(e, reversed)
         IN  IF base64Encoded.ok THEN Ok(Prefix \o base64Encoded.v) ELSE base64Encoded

generate(e, now, validityInSeconds, payload) ==
    IF typeof(validityInSeconds) # "number" \/ LessThanOne(validityInSeconds)
    THEN Throw(ValidityMessage)
    ELSE IF typeof(payload) # "string" \/ Len(payload.s) = 0
    THEN Throw(PayloadMessage)
    ELSE LET currentEpoch == getCurrentEpoch(now)
             todaysDate == getTodaysDateUTC(now)
             combined == currentEpoch + parseInt(todaysDate).n
             formattedValidity == formatValidity(validityInSeconds)
             prefixedValue == formattedValidity \o IntToString(combined)
             dataString == prefixedValue \o <<Pipe>> \o payload.s
             reversed == reverseString(dataString)
             base64Encoded == encodeToBase64(e, reversed)
         IN  IF base64Encoded.ok THEN Ok(Prefix \o base64Encoded.v) ELSE base64Encoded

MissingPrefix == "Invalid RPAK format: Missing RPAK_ prefix"

MissingDelimiter == "Invalid RPAK format: Missing pipe delimiter"

CannotParseValidity == "Invalid RPAK format: Cannot parse validity"

CannotParseCombined == "Invalid RPAK format: Cannot parse combined value"

NotAFunction == "rpakKey.startsWith is not a function"

\* a faulty try block that reports a key as expired one second early
ValidateTryExpiredAtLimit(e, now, rpakKey) ==
    IF ~Truthy(rpakKey) THEN Ok([valid |-> FALSE, error |-> MissingPrefix])
    ELSE IF typeof(rpakKey) # "string" THEN Throw(NotAFunction)
    ELSE IF ~startsWith(rpakKey.s, Prefix) THEN Ok([valid |-> FALSE, error |-> MissingPrefix])
    ELSE LET base64Part == substringFrom(rpakKey.s, 5)
             xored == decodeFromBase64(e, base64Part)
         IN  IF ~xored.ok THEN xored
             ELSE LET decoded == reverseString(xored.v)
                      parts == split(decoded, Pipe)
                  IN  IF Len(parts) < 2
                      THEN Ok([valid |-> FALSE, error |-> MissingDelimiter])
                      ELSE LET prefixedValue == parts[1]
                               payload == join(Tail(parts), Pipe)
                               validityInSeconds == parseInt(substring(prefixedValue, 0, 2))
                               combinedValue == parseInt(substringFrom(prefixedValue, 2))
                           IN  IF isNaN(validityInSeconds)
                               THEN Ok([valid |-> FALSE, error |-> CannotParseValidity])
                               ELSE IF isNaN(combinedValue)
                               THEN Ok([valid |-> FALSE, error |-> CannotParseCombined])
                               ELSE LET todaysDate == getTodaysDateUTC(now)
                                        keyEpoch == combinedValue.n - parseInt(todaysDate).n
                                        currentEpoch == getCurrentEpoch(now)
                                        timeDifference == currentEpoch - keyEpoch
                                        isValid == timeDifference >= 0
                                                   /\ timeDifference <= validityInSeconds.n
                                    IN  Ok([valid |-> isValid,
                                            validity |-> validityInSeconds.n,
                                            keyEpoch |-> keyEpoch,
                                            currentEpoch |-> currentEpoch,
                                            timeDifference |-> timeDifference,
                                            payload |-> payload,
                                            expired |-> timeDifference >= validityInSeconds.n,
                                            notYetValid |-> timeDifference < 0])

\* the body of validate's try block: Ok(result record), or Throw(message)
\* for an exception raised inside it
validateTry(e, now, rpakKey) ==
    IF ~Truthy(rpakKey) THEN Ok([valid |-> FALSE, error |-> MissingPrefix])
    ELSE IF typeof(rpakKey) # "string" THEN Throw(NotAFunction)
    ELSE IF ~startsWith(rpakKey.s, Prefix) THEN Ok([valid |-> FALSE, error |-> MissingPrefix])
    ELSE LET base64Part == substringFrom(rpakKey.s, 5)
             xored == decodeFromBase64(e, base64Part)
         IN  IF ~xored.ok THEN xored
             ELSE LET decoded == reverseString(xored.v)
                      parts == split(decoded, Pipe)
                  IN  IF Len(parts) < 2
                      THEN Ok([valid |-> FALSE, error |-> MissingDelimiter])
                      ELSE LET prefixedValue == parts[1]
                               payload == join(Tail(parts), Pipe)
                               validityInSeconds == parseInt(substring(prefixedValue, 0, 2))
                               combinedValue == parseInt(substringFrom(prefixedValue, 2))
                           IN  IF isNaN(validityInSeconds)
                               THEN Ok([valid |-> FALSE, error |-> CannotParseValidity])
                               ELSE IF isNaN(combinedValue)
                               THEN Ok([valid |-> FALSE, error |-> CannotParseCombined])
                               ELSE LET todaysDate == getTodaysDateUTC(now)
                                        keyEpoch == combinedValue.n - parseInt(todaysDate).n
                                        currentEpoch == getCurrentEpoch(now)
                                        timeDifference == currentEpoch - keyEpoch
                                        isValid == timeDifference >= 0
                                                   /\ timeDifference <= validityInSeconds.n
                                    IN  Ok([valid |-> isValid,
                                            validity |-> validityInSeconds.n,
                                            keyEpoch |-> keyEpoch,
                                            currentEpoch |-> currentEpoch,
                                            timeDifference |-> timeDifference,
                                            payload |-> payload,
                                            expired |-> timeDifference > validityInSeconds.n,
                                            notYetValid |-> timeDifference < 0])

\* a faulty validate whose try block has no catch clause
ValidateNoCatch(e, now, rpakKey) == validateTry(e, now, rpakKey)

\* validate: the catch clause turns an exception into a result record
validate(e, now, rpakKey) ==
    LET r == validateTry(e, now, rpakKey)
    IN  IF r.ok THEN r
        ELSE Ok([valid |-> FALSE, error |-> "Validation error: " \o r.err])

-----------------------------------------------------------------------------
(* tax-lookup-api.js: errors, URLs and input checks *)

API_BASE_URL == "https://api.taxlookup.fastgst.in"

\* the validity window makeRequest asks RPAK for
ApiKeyValidity == 4

\* JSON.stringify({}) is "{}"
EmptyObjectJson == <<123, 125>>

\* new Error(message); the message is kept as the sequence of its parts
Error(parts) == [name |-> "Error", message |-> parts]

TypeError(parts) == [name |-> "TypeError", message |-> parts]

QueryEmpty == "Search query cannot be empty"

CodeEmpty == "HSN code cannot be empty"

CodeFormat == "Invalid HSN code format. Must be 4-8 digits."

\* characters encodeURIComponent leaves alone: A-Z a-z 0-9 - _ . ! ~ * ' ( )
Unreserved == (65..90) \cup (97..122) \cup (48..57) \cup {45, 95, 46, 33, 126, 42, 39, 40, 41}

HexChar(n) == IF n < 10 THEN 48 + n ELSE 55 + n

PercentEncode(bytes) ==
    [i \in 1..(3 * Len(bytes)) |->
        LET b == bytes[(i + 2) \div 3]
        IN  IF i % 3 = 1 THEN 37 ELSE IF i % 3 = 2 THEN HexChar(b \div 16) ELSE HexChar(b % 16)]

\* every surrogate code unit is half of a pair
RECURSIVE WellFormed(_)
WellFormed(s) ==
    IF Len(s) = 0 THEN TRUE
    ELSE IF IsHighSurrogate(s[1])
        THEN Len(s) >= 2 /\ IsLowSurrogate(s[2]) /\ WellFormed(SubSeq(s, 3, Len(s)))
    ELSE ~IsLowSurrogate(s[1]) /\ WellFormed(Tail(s))

RECURSIVE UriEscape(_)
UriEscape(s) ==
    IF Len(s) = 0 THEN <<>>
    ELSE IF s[1] \in Unreserved THEN <<s[1]>> \o UriEscape(Tail(s))
    ELSE IF IsHighSurrogate(s[1])
        THEN PercentEncode(Utf8Encode(SubSeq(s, 1, 2))) \o UriEscape(SubSeq(s, 3, Len(s)))
    ELSE PercentEncode(Utf8Encode(<<s[1]>>)) \o UriEscape(Tail(s))

\* encodeURIComponent: a lone surrogate makes it throw URIError
encodeURIComponent(s) ==
    IF WellFormed(s) THEN Ok(UriEscape(s))
    ELSE Throw([name |-> "URIError", message |-> <<"URI malformed">>])

\* a faulty pattern without the upper bound: /^\d{4,}$/
IsHSNFormatUnbounded(s) == Len(s) >= 4 /\ \A i \in 1..Len(s) : s[i] \in Digits

\* /^\d{4,8}$/.test(s)
IsHSNFormat(s) == Len(s) \in 4..8 /\ \A i \in 1..Len(s) : s[i] \in Digits

\* the checks of searchByKeywords and the URL it builds: Ok(url) or Throw(error)
searchUrl(query) ==
    IF ~Truthy(query) THEN Throw(Error(<<QueryEmpty>>))
    ELSE IF typeof(query) # "string" THEN Throw(TypeError(<<"query.trim is not a function">>))
    ELSE IF Len(trim(query.s)) = 0 THEN Throw(Error(<<QueryEmpty>>))
    ELSE LET q == encodeURIComponent(trim(query.s))
         IN  IF q.ok
             THEN Ok([base |-> API_BASE_URL, path |-> "/search/hsn?query=", arg |-> q.v,
                      tail |-> ""])
             ELSE q

\* the checks shared by getHierarchy and getTaxInfo and the URL each builds
codeUrl(hsnCode, tail) ==
    IF ~Truthy(hsnCode) THEN Throw(Error(<<CodeEmpty>>))
    ELSE IF typeof(hsnCode) # "string"
        THEN Throw(TypeError(<<"hsnCode.trim is not a function">>))
    ELSE IF Len(trim(hsnCode.s)) = 0 THEN Throw(Error(<<CodeEmpty>>))
    ELSE IF ~IsHSNFormat(trim(hsnCode.s)) THEN Throw(Error(<<CodeFormat>>))
    ELSE Ok([base |-> API_BASE_URL, path |-> "/search/hsn/", arg |-> trim(hsnCode.s),
             tail |-> tail])

\* the URL a method builds from its argument, or the error it throws first
methodUrl(fn, arg) ==
    CASE fn = "searchByKeywords" -> searchUrl(arg)
      [] fn = "getHierarchy" -> codeUrl(arg, "")
      [] fn = "getTaxInfo" -> codeUrl(arg, "/taxes")

\* faulty options that carry a key built when the page loaded
RequestOptionsCached(e, now) ==
    LET key == generate(e, now - ticks, JSInt(ApiKeyValidity), JSStr(EmptyObjectJson))
    IN  IF key.ok
        THEN Ok([method |-> "GET",
                 headers |-> [XAPIKey |-> key.v, extHeaders |-> "--extscr=true",
                              ContentType |-> "application/json",
                              Accept |-> "application/json"]])
        ELSE Throw(Error(<<key.err>>))

\* the options object makeRequest hands to fetch
requestOptions(e, now) ==
    LET key == generate(e, now, JSInt(ApiKeyValidity), JSStr(EmptyObjectJson))
    IN  IF key.ok
        THEN Ok([method |-> "GET",
                 headers |-> [XAPIKey |-> key.v, extHeaders |-> "--extscr=true",
                              ContentType |-> "application/json",
                              Accept |-> "application/json"]])
        ELSE Throw(Error(<<key.err>>))

-----------------------------------------------------------------------------
(* Inputs *)

\* the clock may advance this many times in a run
MaxTicks == 3

\* two seconds before a UTC midnight: 30 Jan 1970 (the day changes),
\* 31 Jan 1970 (the month changes), 31 Dec 1970 (the year changes)
StartInstants == {2591998, 2678398, 31535998}

\* how far the clock advances at once: a second, or a day
Steps == {1, SecondsPerDay}

Environments == {"btoa", "Buffer", "none"}

\* -1, 0, 1, 2, 99, 100, 101, 0.5, 1.5, NaN, "5", undefined
ValidityInputs ==
    {JSInt(-1), JSInt(0), JSInt(1), JSInt(2), JSInt(99), JSInt(100), JSInt(101),
     JSDec(0, <<53>>), JSDec(1, <<53>>), JSNaN, JSStr(<<53>>), JSUndefined}

\* "", "{}", "a|b", "|", e-acute, the rupee sign, an emoji (a surrogate
\* pair), undefined, 7
PayloadInputs ==
    {JSStr(<<>>), JSStr(<<123, 125>>), JSStr(<<97, 124, 98>>), JSStr(<<124>>),
     JSStr(<<233>>), JSStr(<<8377>>), JSStr(<<55357, 56832>>), JSUndefined, JSInt(7)}

\* a key built the way generate builds one, around any text
Forge(text) == Prefix \o Base64Encode(xorEncode(reverseString(text)))

\* texts an attacker may wrap: "xyz", "abcd|p", "12|p", "12ab|p",
\* "0132603969|p|q", "-532603969|p", " 232678399|p"
ForgedTexts ==
    {<<120, 121, 122>>,
     <<97, 98, 99, 100, 124, 112>>,
     <<49, 50, 124, 112>>,
     <<49, 50, 97, 98, 124, 112>>,
     <<48, 49, 51, 50, 54, 48, 51, 57, 54, 57, 124, 112, 124, 113>>,
     <<45, 53, 51, 50, 54, 48, 51, 57, 54, 57, 124, 112>>,
     <<32, 50, 51, 50, 54, 55, 56, 51, 57, 57, 124, 112>>}

\* undefined, null, 0, 5, {}, "", "not-a-token", "RPAK_", "RPAK_a",
\* "RPAK_!!!!", "RPAK_ab=cd" and the forged keys
UntrustedArgs ==
    {JSUndefined, JSNull, JSInt(0), JSInt(5), JSObject, JSStr(<<>>),
     JSStr(<<110, 111, 116, 45, 97, 45, 116, 111, 107, 101, 110>>),
     JSStr(Prefix), JSStr(Prefix \o <<97>>), JSStr(Prefix \o <<33, 33, 33, 33>>),
     JSStr(Prefix \o <<97, 98, 61, 99, 100>>)}
    \cup {JSStr(Forge(t)) : t \in ForgedTexts}

-----------------------------------------------------------------------------
(* State machine of the key module *)

NoCall == [st |-> "none"]

Init ==
    /\ env \in Environments
    /\ clock \in StartInstants
    /\ ticks = 0
    /\ gen = NoCall
    /\ val = NoCall
    /\ calls = <<>>
    /\ fetches = <<>>

\* time passes: a second, or a day
Tick ==
    /\ ticks < MaxTicks
    /\ \E d \in Steps : clock' = clock + d
    /\ ticks' = ticks + 1
    /\ UNCHANGED <<env, gen, val, calls, fetches>>

\* RPAK.generate(validityInSeconds, payload).  The module keeps nothing
\* between calls, so a run follows one key: it is generated once, at any
\* instant, and validated at any later instants
Generate(validityInSeconds, payload) ==
    /\ gen = NoCall
    /\ val = NoCall
    /\ gen' = [st |-> "called", validity |-> validityInSeconds, payload |-> payload,
               at |-> clock, out |-> generate(env, clock, validityInSeconds, payload)]
    /\ UNCHANGED <<env, clock, ticks, val, calls, fetches>>

\* RPAK.validate(key) on the key the last generate call returned
ValidateKey ==
    /\ gen.st = "called"
    /\ gen.out.ok
    /\ val' = [st |-> "called", arg |-> JSStr(gen.out.v), ofGen |-> TRUE, at |-> clock,
               out |-> validate(env, clock, JSStr(gen.out.v))]
    /\ UNCHANGED <<env, clock, ticks, gen, calls, fetches>>

\* RPAK.validate(arg) on an argument from anywhere else
ValidateArg(arg) ==
    /\ gen = NoCall
    /\ val' = [st |-> "called", arg |-> arg, ofGen |-> FALSE, at |-> clock,
               out |-> validate(env, clock, arg)]
    /\ UNCHANGED <<env, clock, ticks, gen, calls, fetches>>

Next ==
    \/ Tick
    \/ \E v \in ValidityInputs, p \in PayloadInputs : Generate(v, p)
    \/ ValidateKey
    \/ \E a \in UntrustedArgs : ValidateArg(a)

Spec == Init /\ [][Next]_vars

-----------------------------------------------------------------------------
(* Properties of the key module *)

IsInteger(x) == x.t = "number" /\ x.k = "int"

IsPositiveInteger(x) == IsInteger(x) /\ x.n >= 1

IsNonEmptyString(x) == x.t = "string" /\ Len(x.s) > 0

Generated == gen.st = "called"

\* validate has run on the key that generate returned
ValidatedOwnKey == Generated /\ gen.out.ok /\ val.st = "called" /\ val.ofGen

ValidateSucceeded == val.out.ok /\ "payload" \in DOMAIN val.out.v

Elapsed == val.at - gen.at

\* "DDMMYYYY" of an instant
DateOf(t) == getTodaysDateUTC(t)

\* C1: on a host that provides a base64 primitive, for every validity in
\* 1..99 and every non-empty payload, generate returns a key, and validate
\* on that key, after any amount of time, returns the payload unchanged.
C1_PayloadRoundTrip ==
    (Generated /\ env # "none" /\ IsInteger(gen.validity) /\ gen.validity.n \in 1..99
        /\ IsNonEmptyString(gen.payload))
    => /\ gen.out.ok
       /\ ValidatedOwnKey => ValidateSucceeded /\ val.out.v.payload = gen.payload.s

\* C1: where the code departs: btoa refuses the rupee sign (a code unit
\* above 255), so generate throws instead of returning a key
C1_RupeeRefused ==
    /\ Generated /\ env = "btoa"
    /\ gen.validity = JSInt(1) /\ gen.payload = JSStr(<<8377>>)
    /\ gen.out = Throw(InvalidCharacterError)

\* C2: for a positive integer validity and a non-empty payload, validate
\* at the instant of generation returns valid = TRUE with
\* 0 <= timeDifference <= validity.
C2_FreshTokenValid ==
    (ValidatedOwnKey /\ Elapsed = 0 /\ IsPositiveInteger(gen.validity))
    => /\ ValidateSucceeded
       /\ val.out.v.valid
       /\ val.out.v.timeDifference \in 0..gen.validity.n

\* C2: where the code departs: the key for validity 101 is read back as
\* validity 10 and an issue instant far in the future
C2_WideValidityRejected ==
    /\ ValidatedOwnKey /\ Elapsed = 0 /\ gen.validity = JSInt(101)
    /\ ValidateSucceeded
    /\ ~val.out.v.valid /\ val.out.v.notYetValid
    /\ val.out.v.validity = 10

\* C3: for every key generate returns, once more than validity whole
\* seconds have passed since generation, validate returns expired = TRUE
\* and valid = FALSE, whatever the generation instant and the elapsed time,
\* a change of UTC date included.
C3_Expiry ==
    (ValidatedOwnKey /\ IsPositiveInteger(gen.validity) /\ Elapsed > gen.validity.n)
    => /\ ValidateSucceeded
       /\ val.out.v.expired
       /\ ~val.out.v.valid

\* C3: where the code departs: a key of validity 1 generated two seconds
\* before the month changes and validated after the change is reported as
\* not yet valid instead of expired
C3_MonthChangeNotExpired ==
    /\ ValidatedOwnKey /\ gen.validity = JSInt(1) /\ Elapsed \in 2..3
    /\ SubSeq(DateOf(gen.at), 3, 4) # SubSeq(DateOf(val.at), 3, 4)
    /\ ValidateSucceeded
    /\ ~val.out.v.expired /\ val.out.v.notYetValid

\* C4: validate never raises: for every argument it returns a record with
\* a boolean valid field, and an exception raised inside it becomes
\* {valid: false, error: <message>}.
C4_ValidateNeverRaises ==
    val.st = "called"
    => /\ val.out.ok
       /\ "valid" \in DOMAIN val.out.v
       /\ val.out.v.valid \in BOOLEAN
       /\ LET attempt == validateTry(env, val.at, val.arg)
          IN  ~attempt.ok
              => val.out.v = [valid |-> FALSE, error |-> "Validation error: " \o attempt.err]

\* C4: "RPAK_a", malformed base64, makes atob throw inside validate
C4_DecodeExceptionCaught ==
    /\ val.st = "called" /\ env = "btoa"
    /\ val.arg = JSStr(Prefix \o <<97>>)
    /\ val.out = Ok([valid |-> FALSE,
                     error |-> "Validation error: " \o InvalidCharacterError])

\* C5: generate fails with one of its two argument errors, and returns no
\* key, whenever validity is not a positive integer (zero, negative,
\* non-integer, NaN, not a number) or payload is not a non-empty string; it
\* returns a key only when both conditions are met.
C5_GenerateRejectsBadInput ==
    Generated
    => LET good == IsPositiveInteger(gen.validity) /\ IsNonEmptyString(gen.payload)
       IN  /\ ~good => ~gen.out.ok /\ gen.out.err \in {ValidityMessage, PayloadMessage}
           /\ gen.out.ok => good

\* C5: where the code departs: NaN is of type number and is not below 1,
\* so generate returns a key for it
C5_NaNAccepted ==
    /\ Generated /\ gen.validity = JSNaN /\ gen.payload = JSStr(<<123, 125>>)
    /\ gen.out.ok

HasPrefix(s) == Len(s) >= 5 /\ SubSeq(s, 1, 5) = <<82, 80, 65, 75, 95>>

HasPipe(s) == \E i \in 1..Len(s) : s[i] = Pipe

FirstPipe(s) == CHOOSE i \in 1..Len(s) : s[i] = Pipe /\ \A k \in 1..(i - 1) : s[k] # Pipe

Fails(message) == val.out = Ok([valid |-> FALSE, error |-> message])

ResultFields ==
    {"valid", "validity", "keyEpoch", "currentEpoch", "timeDifference", "payload",
     "expired", "notYetValid"}

\* C10: for an absent or string argument, validate reports the first
\* failing check, in this order: (1) absent or no "RPAK_" prefix, (2) no
\* "|" in the decoded text, (3) the first two header characters are not an
\* integer, (4) the rest of the header is not an integer; each failure is
\* {valid: false, error: <string>}; a key that passes all four yields the
\* record of validity, issue epoch, verify epoch, elapsed seconds, payload,
\* expired and notYetValid, with no error.  (A key whose base64 part cannot
\* be decoded fails none of the four: it is C4's case.)
C10_OrderedRejection ==
    (val.st = "called" /\ (val.arg.t = "string" \/ ~Truthy(val.arg)))
    => IF ~Truthy(val.arg) \/ ~HasPrefix(val.arg.s) THEN Fails(MissingPrefix)
       ELSE LET xored == decodeFromBase64(env, SubSeq(val.arg.s, 6, Len(val.arg.s)))
            IN  IF ~xored.ok
                THEN val.out.ok /\ ~val.out.v.valid /\ DOMAIN val.out.v = {"valid", "error"}
                ELSE LET text == reverseString(xored.v)
                     IN  IF ~HasPipe(text) THEN Fails(MissingDelimiter)
                         ELSE LET header == SubSeq(text, 1, FirstPipe(text) - 1)
                                  first2 == SubSeq(header, 1, IF Len(header) < 2 THEN Len(header) ELSE 2)
                                  rest == SubSeq(header, 3, Len(header))
                              IN  IF isNaN(parseInt(first2)) THEN Fails(CannotParseValidity)
                                  ELSE IF isNaN(parseInt(rest)) THEN Fails(CannotParseCombined)
                                  ELSE /\ val.out.ok
                                       /\ DOMAIN val.out.v = ResultFields
                                       /\ val.out.v.validity = parseInt(first2).n
                                       /\ val.out.v.currentEpoch = val.at
                                       /\ val.out.v.payload
                                              = SubSeq(text, FirstPipe(text) + 1, Len(text))

\* C10: "abcd|p" fails checks (3) and (4); (3) is the one reported
C10_FirstFailureReported ==
    /\ val.st = "called" /\ env = "btoa"
    /\ val.arg = JSStr(Forge(<<97, 98, 99, 100, 124, 112>>))
    /\ Fails(CannotParseValidity)

DateCode(t) == parseInt(DateOf(t)).n

\* C11: validate recovers the issue epoch as combined minus the date code
\* of the instant of validation.  For a key generate returned (validity in
\* 1..99, the values that fit the two header characters) the record has no
\* error field and its keyEpoch is the epoch read at generation plus the
\* date code at generation minus the date code at validation: the epoch of
\* generation itself when both fall on the same UTC date, and off by the
\* difference of the two DDMMYYYY numbers after a UTC midnight.
C11_IssueEpochRecovery ==
    (ValidatedOwnKey /\ IsInteger(gen.validity) /\ gen.validity.n \in 1..99)
    => /\ ValidateSucceeded
       /\ "error" \notin DOMAIN val.out.v
       /\ val.out.v.keyEpoch = gen.at + DateCode(gen.at) - DateCode(val.at)
       /\ DateOf(gen.at) = DateOf(val.at) => val.out.v.keyEpoch = gen.at

\* C11: a key issued two seconds before midnight of 31 January 1970 and
\* validated after it: the record has no error field and its issue epoch is
\* off by 31011970 - 01021970
C11_WrongEpochAfterMidnight ==
    /\ ValidatedOwnKey /\ gen.validity = JSInt(2)
    /\ gen.at = 2678398 /\ val.at = 2678400
    /\ ValidateSucceeded
    /\ val.out.v.keyEpoch = gen.at + 29990000

\* validate has returned a record without an error field
Judged == val.st = "called" /\ val.out.ok /\ "error" \notin DOMAIN val.out.v

VerdictsAsDefined(r) ==
    /\ r.timeDifference = r.currentEpoch - r.keyEpoch
    /\ r.valid <=> (0 <= r.timeDifference /\ r.timeDifference <= r.validity)
    /\ r.expired <=> r.timeDifference > r.validity
    /\ r.notYetValid <=> r.timeDifference < 0

TrueVerdicts(r) == Cardinality({f \in {"valid", "expired", "notYetValid"} : r[f]})

\* C12: in every record validate returns without an error field, valid
\* holds iff 0 <= timeDifference <= validity, expired iff timeDifference >
\* validity, notYetValid iff timeDifference < 0; at least one of the three
\* is true and valid excludes the other two; exactly one is true whenever
\* the validity parsed from the key is not negative.
C12_Verdicts ==
    Judged
    => LET r == val.out.v
       IN  /\ VerdictsAsDefined(r)
           /\ TrueVerdicts(r) >= 1
           /\ r.valid => TrueVerdicts(r) = 1
           /\ r.validity >= 0 => TrueVerdicts(r) = 1

\* C12: a forged key whose header starts with "-5" is read as validity -5;
\* one second before its issue epoch it is both expired and not yet valid
C12_ExpiredAndNotYetValid ==
    /\ Judged
    /\ val.out.v.validity = -5 /\ val.out.v.timeDifference = -1
    /\ val.out.v.expired /\ val.out.v.notYetValid /\ ~val.out.v.valid

\* C12 as first stated: in every record without an error field exactly one
\* of valid, expired and notYetValid is true.
C12_ExactlyOneVerdict ==
    Judged
    => LET r == val.out.v
       IN  VerdictsAsDefined(r) /\ TrueVerdicts(r) = 1

-----------------------------------------------------------------------------
(* tax-lookup-api.js: promises and requests *)

\* the number of TaxLookupAPI methods a run invokes; calls share no state,
\* so one call shows what every call does
MaxCalls == 1

\* the clock may advance this many times while the client runs
MaxWaits == 1

\* "", "   ", " milk ", a lone surrogate, undefined
QueryInputs ==
    {JSStr(<<>>), JSStr(<<32, 32, 32>>), JSStr(<<32, 109, 105, 108, 107, 32>>),
     JSStr(<<55357>>), JSUndefined}

\* "", " ", "12a", "123", " 1234 ", "123456789", undefined, the number 1234
CodeInputs ==
    {JSStr(<<>>), JSStr(<<32>>), JSStr(<<49, 50, 97>>), JSStr(<<49, 50, 51>>),
     JSStr(<<32, 49, 50, 51, 52, 32>>),
     JSStr(<<49, 50, 51, 52, 53, 54, 55, 56, 57>>), JSUndefined, JSInt(1234)}

\* what the remote service may answer
Statuses == {200, 404}

StatusText(status) ==
    CASE status = 200 -> "OK"
      [] status = 404 -> "Not Found"

\* a faulty response.ok that takes every status below 500 for a success
IsOkBelow500(status) == status \in 200..499

\* response.ok
IsOk(status) == status \in 200..299

ErrorBodies == {"{\"error\":\"no such code\"}"}

JsonNull == [t |-> "null"]

\* parsed bodies: the expected shape (twice), an object without meta, null
JsonBodies ==
    {[t |-> "object", data |-> "rows-a", meta |-> [request_id |-> "req-a"]],
     [t |-> "object", data |-> "rows-b", meta |-> [request_id |-> "req-b"]],
     [t |-> "object", data |-> "rows-c"],
     JsonNull}

NetworkError == TypeError(<<"Failed to fetch">>)

SyntaxError == [name |-> "SyntaxError", message |-> <<"Unexpected token in JSON">>]

ApiError(status) == Error(<<"API Error: ", ToString(status), " ", StatusText(status)>>)

\* one of the simple methods runs up to its first await: it checks its
\* argument, builds the URL, and makeRequest builds the options and calls
\* fetch.  Returns <<calls, fetches>> with the call (and its request) added
StartCall(cs, fs, fn, arg, parent, e, now) ==
    LET id == Len(cs) + 1
        url == methodUrl(fn, arg)
        call == [fn |-> fn, arg |-> arg, parent |-> parent,
                 st |-> "pending", out |-> JSUndefined, keys |-> 0]
    IN  IF ~url.ok
        THEN <<Append(cs, [call EXCEPT !.st = "rejected", !.out = url.err]), fs>>
        ELSE LET options == requestOptions(e, now)
             IN  IF ~options.ok
                 THEN <<Append(cs, [call EXCEPT !.st = "rejected", !.out = options.err,
                                                !.keys = 1]), fs>>
                 ELSE <<Append(cs, [call EXCEPT !.keys = 1]),
                        Append(fs, [call |-> id, url |-> url.v, options |-> options.v,
                                    at |-> now, st |-> "pending", status |-> 0,
                                    body |-> JSUndefined])>>

CompleteFailed == "Failed to get complete HSN info: "

\* the catch clause of getCompleteHSNInfo
Wrap(error) == Error(<<CompleteFailed>> \o error.message)

\* the object getCompleteHSNInfo builds from the two bodies; reading a
\* property of null or undefined throws
merge(hierarchyData, taxData) ==
    IF hierarchyData = JsonNull \/ taxData = JsonNull
    THEN Throw(TypeError(<<"Cannot read properties of null (reading 'data')">>))
    ELSE IF "meta" \notin DOMAIN taxData
    THEN Throw(TypeError(<<"Cannot read properties of undefined (reading 'request_id')">>))
    ELSE Ok([success |-> TRUE,
             hierarchy |-> hierarchyData.data,
             taxInfo |-> taxData.data,
             meta |-> IF "meta" \in DOMAIN hierarchyData
                      THEN [request_id |-> hierarchyData.meta.request_id,
                            tax_request_id |-> taxData.meta.request_id]
                      ELSE [tax_request_id |-> taxData.meta.request_id]])

Legs(cs, p) == {j \in 1..Len(cs) : cs[j].parent = p}

LegOf(cs, p, fn) == CHOOSE j \in Legs(cs, p) : cs[j].fn = fn

\* a faulty join that waits until both legs have settled (Promise.allSettled)
JoinAllSettled(cs, p, i) ==
    IF cs[p].st # "pending" \/ \E j \in Legs(cs, p) : cs[j].st = "pending" THEN cs
    ELSE IF \E j \in Legs(cs, p) : cs[j].st = "rejected"
    THEN LET j == CHOOSE j \in Legs(cs, p) : cs[j].st = "rejected"
         IN  [cs EXCEPT ![p].st = "rejected", ![p].out = Wrap(cs[j].out)]
    ELSE LET m == merge(cs[LegOf(cs, p, "getHierarchy")].out,
                        cs[LegOf(cs, p, "getTaxInfo")].out)
         IN  IF m.ok THEN [cs EXCEPT ![p].st = "resolved", ![p].out = m.v]
             ELSE [cs EXCEPT ![p].st = "rejected", ![p].out = Wrap(m.err)]

\* Promise.all over the two legs of call p, and the rest of
\* getCompleteHSNInfo, run when leg i settles
Join(cs, p, i) ==
    IF cs[p].st # "pending" THEN cs
    ELSE IF cs[i].st = "rejected"
    THEN [cs EXCEPT ![p].st = "rejected", ![p].out = Wrap(cs[i].out)]
    ELSE IF \A j \in Legs(cs, p) : cs[j].st = "resolved"
    THEN LET m == merge(cs[LegOf(cs, p, "getHierarchy")].out,
                        cs[LegOf(cs, p, "getTaxInfo")].out)
         IN  IF m.ok THEN [cs EXCEPT ![p].st = "resolved", ![p].out = m.v]
             ELSE [cs EXCEPT ![p].st = "rejected", ![p].out = Wrap(m.err)]
    ELSE cs

\* the promise of call i settles; a leg hands its outcome on to Promise.all
Settle(cs, i, st, out) ==
    LET settled == [cs EXCEPT ![i].st = st, ![i].out = out]
    IN  IF cs[i].parent = 0 THEN settled ELSE Join(settled, cs[i].parent, i)

Invoked == Cardinality({i \in 1..Len(calls) : calls[i].parent = 0})

\* A method invoked from the page.  The outcome of StartCall is bound once
\* (\E over a singleton) and then split into the two variables
SearchByKeywords(query) ==
    /\ Invoked < MaxCalls
    /\ \E s \in {StartCall(calls, fetches, "searchByKeywords", query, 0, env, clock)} :
          calls' = s[1] /\ fetches' = s[2]
    /\ UNCHANGED <<env, clock, ticks, gen, val>>

GetHierarchy(hsnCode) ==
    /\ Invoked < MaxCalls
    /\ \E s \in {StartCall(calls, fetches, "getHierarchy", hsnCode, 0, env, clock)} :
          calls' = s[1] /\ fetches' = s[2]
    /\ UNCHANGED <<env, clock, ticks, gen, val>>

GetTaxInfo(hsnCode) ==
    /\ Invoked < MaxCalls
    /\ \E s \in {StartCall(calls, fetches, "getTaxInfo", hsnCode, 0, env, clock)} :
          calls' = s[1] /\ fetches' = s[2]
    /\ UNCHANGED <<env, clock, ticks, gen, val>>

\* getCompleteHSNInfo: both legs run up to their first await while the
\* array handed to Promise.all is built, then Promise.all sees each leg
GetCompleteHSNInfo(hsnCode) ==
    /\ Invoked < MaxCalls
    /\ \E p \in {Len(calls) + 1} :
       \E cs \in {Append(calls, [fn |-> "getCompleteHSNInfo", arg |-> hsnCode,
                                 parent |-> 0, st |-> "pending", out |-> JSUndefined,
                                 keys |-> 0])} :
       \E h \in {StartCall(cs, fetches, "getHierarchy", hsnCode, p, env, clock)} :
       \E t \in {StartCall(h[1], h[2], "getTaxInfo", hsnCode, p, env, clock)} :
       \E first \in {Join(t[1], p, p + 1)} :
          /\ calls' = Join(first, p, p + 2)
          /\ fetches' = t[2]
    /\ UNCHANGED <<env, clock, ticks, gen, val>>

\* fetch resolves with a response; makeRequest starts reading its body
Respond(i, status) ==
    /\ fetches[i].st = "pending"
    /\ fetches' = [fetches EXCEPT ![i].st = IF IsOk(status) THEN "json" ELSE "text",
                                  ![i].status = status]
    /\ UNCHANGED <<env, clock, ticks, gen, val, calls>>

\* fetch rejects: the catch clause logs the error and throws it again
NetworkFail(i) ==
    /\ fetches[i].st = "pending"
    /\ fetches' = [fetches EXCEPT ![i].st = "failed"]
    /\ calls' = Settle(calls, fetches[i].call, "rejected", NetworkError)
    /\ UNCHANGED <<env, clock, ticks, gen, val>>

\* response.text() resolves on a non-2xx response
TextRead(i, text) ==
    /\ fetches[i].st = "text"
    /\ fetches' = [fetches EXCEPT ![i].st = "done", ![i].body = text]
    /\ calls' = Settle(calls, fetches[i].call, "rejected", ApiError(fetches[i].status))
    /\ UNCHANGED <<env, clock, ticks, gen, val>>

\* response.text() rejects: the connection broke while the body was read
TextFail(i) ==
    /\ fetches[i].st = "text"
    /\ fetches' = [fetches EXCEPT ![i].st = "failed"]
    /\ calls' = Settle(calls, fetches[i].call, "rejected", NetworkError)
    /\ UNCHANGED <<env, clock, ticks, gen, val>>

\* response.json() resolves
JsonRead(i, data) ==
    /\ fetches[i].st = "json"
    /\ fetches' = [fetches EXCEPT ![i].st = "done", ![i].body = data]
    /\ calls' = Settle(calls, fetches[i].call, "resolved", data)
    /\ UNCHANGED <<env, clock, ticks, gen, val>>

\* response.json() rejects: the body is not JSON
JsonFail(i) ==
    /\ fetches[i].st = "json"
    /\ fetches' = [fetches EXCEPT ![i].st = "failed"]
    /\ calls' = Settle(calls, fetches[i].call, "rejected", SyntaxError)
    /\ UNCHANGED <<env, clock, ticks, gen, val>>

\* time passes while the client runs
Wait ==
    /\ ticks < MaxWaits
    /\ clock' = clock + 1
    /\ ticks' = ticks + 1
    /\ UNCHANGED <<env, gen, val, calls, fetches>>

\* the client is written for a browser page (window, fetch), where btoa is
\* defined; the date plays no part in it, so it starts at the earliest instant
InitApi == Init /\ env = "btoa" /\ \A t \in StartInstants : clock <= t

NextApi ==
    \/ Wait
    \/ \E q \in QueryInputs : SearchByKeywords(q)
    \/ \E c \in CodeInputs : GetHierarchy(c)
    \/ \E c \in CodeInputs : GetTaxInfo(c)
    \/ \E c \in CodeInputs : GetCompleteHSNInfo(c)
    \/ \E i \in 1..Len(fetches), status \in Statuses : Respond(i, status)
    \/ \E i \in 1..Len(fetches) : NetworkFail(i)
    \/ \E i \in 1..Len(fetches), text \in ErrorBodies : TextRead(i, text)
    \/ \E i \in 1..Len(fetches) : TextFail(i)
    \/ \E i \in 1..Len(fetches), data \in JsonBodies : JsonRead(i, data)
    \/ \E i \in 1..Len(fetches) : JsonFail(i)

SpecApi == InitApi /\ [][NextApi]_vars

-----------------------------------------------------------------------------
(* Properties of the client *)

CallIds == 1..Len(calls)

FetchIds == 1..Len(fetches)

FetchesOf(i) == {k \in FetchIds : fetches[k].call = i}

IsSimple(c) == c.fn \in {"searchByKeywords", "getHierarchy", "getTaxInfo"}

IsComposite(c) == c.fn = "getCompleteHSNInfo"

\* a string with a character that is not white space
IsValidQuery(q) == q.t = "string" /\ \E i \in 1..Len(q.s) : q.s[i] \notin WhiteSpace

\* a string of 4 to 8 digits, with white space around it at most
IsValidCode(c) ==
    /\ c.t = "string"
    /\ \E a, b \in 1..Len(c.s) :
          /\ b - a + 1 \in 4..8
          /\ \A i \in 1..Len(c.s) :
                IF i \in a..b THEN c.s[i] \in 48..57 ELSE c.s[i] \in WhiteSpace

IsValidArg(c) == IF c.fn = "searchByKeywords" THEN IsValidQuery(c.arg) ELSE IsValidCode(c.arg)

\* a non-string, non-empty argument has no trim method: a TypeError
IsStringOrAbsent(x) == x.t = "string" \/ ~Truthy(x)

ValidationErrors == {Error(<<m>>) : m \in {QueryEmpty, CodeEmpty, CodeFormat}}

MessageParts(error) == {error.message[i] : i \in 1..Len(error.message)}

NonSuccess(f) == f.status # 0 /\ f.status \notin 200..299

C7_InvalidInputNoNetwork ==
    \A i \in CallIds :
        LET c == calls[i]
        IN  IsSimple(c)
            => IF IsValidArg(c)
               THEN WellFormed(c.arg.s) => FetchesOf(i) # {} /\ c.keys = 1
               ELSE /\ c.st = "rejected"
                    /\ FetchesOf(i) = {}
                    /\ c.keys = 0
                    /\ IsStringOrAbsent(c.arg) => c.out \in ValidationErrors

\* C7: getHierarchy("12a") has rejected and nothing went to the network
C7_BadCodeRejected ==
    /\ fetches = <<>>
    /\ \E i \in CallIds :
          /\ calls[i].fn = "getHierarchy" /\ calls[i].parent = 0
          /\ calls[i].arg = JSStr(<<49, 50, 97>>)
          /\ calls[i].st = "rejected" /\ calls[i].out = Error(<<CodeFormat>>)

LegsOf(p) == {j \in CallIds : calls[j].parent = p}

\* C8: getCompleteHSNInfo starts both legs at once (with a valid code both
\* requests are out before either is answered); it resolves only when both
\* legs have resolved, with the merge of their results; as soon as a leg
\* rejects it rejects, wrapping the error of a leg that rejected.
C8_Join ==
    \A p \in CallIds :
        IsComposite(calls[p])
        => /\ {calls[j].fn : j \in LegsOf(p)} = {"getHierarchy", "getTaxInfo"}
           /\ Cardinality(LegsOf(p)) = 2
           /\ IsValidCode(calls[p].arg) => \A j \in LegsOf(p) : FetchesOf(j) # {}
           /\ calls[p].st = "resolved"
              => /\ \A j \in LegsOf(p) : calls[j].st = "resolved"
                 /\ \A j \in LegsOf(p) :
                       IF calls[j].fn = "getHierarchy"
                       THEN calls[p].out.hierarchy = calls[j].out.data
                       ELSE /\ calls[p].out.taxInfo = calls[j].out.data
                            /\ calls[p].out.meta.tax_request_id
                                   = calls[j].out.meta.request_id
                 /\ calls[p].out.success
           /\ (\E j \in LegsOf(p) : calls[j].st = "rejected")
              => /\ calls[p].st = "rejected"
                 /\ \E j \in LegsOf(p) :
                       /\ calls[j].st = "rejected"
                       /\ calls[p].out
                              = Error(<<"Failed to get complete HSN info: ">>
                                        \o calls[j].out.message)

\* C8: the tax leg has failed while the hierarchy leg is still waiting,
\* and getCompleteHSNInfo has rejected already
C8_RejectedBeforeOtherLeg ==
    \E p \in CallIds :
        /\ IsComposite(calls[p]) /\ calls[p].st = "rejected"
        /\ \E h, t \in LegsOf(p) :
              /\ calls[h].fn = "getHierarchy" /\ calls[h].st = "pending"
              /\ calls[t].fn = "getTaxInfo" /\ calls[t].st = "rejected"
              /\ calls[p].out = Wrap(calls[t].out)

\* the requests a step adds
NewFetchIds == (Len(fetches) + 1)..Len(fetches')

\* C9: a simple method with valid input issues exactly one request and
\* getCompleteHSNInfo exactly two, whatever the outcome, and never another
\* one after a failure; every request carries a key generated for it in
\* the step that builds it: validate at that instant reads back that very
\* instant as the issue epoch, validity 4 and the payload "{}".
C9_SingleAttemptFreshToken ==
    /\ [](\A i \in CallIds :
             LET c == calls[i]
             IN  /\ (IsSimple(c) /\ IsValidArg(c) /\ WellFormed(c.arg.s))
                    => Cardinality(FetchesOf(i)) = 1 /\ c.keys = 1
                 /\ (IsComposite(c) /\ IsValidCode(c.arg))
                    => Cardinality({k \in FetchIds : fetches[k].call \in LegsOf(i)}) = 2)
    /\ [][\A k \in NewFetchIds :
             LET read == validate(env, clock, JSStr(fetches'[k].options.headers.XAPIKey))
             IN  /\ read.ok /\ read.v.valid
                 /\ read.v.keyEpoch = clock
                 /\ read.v.timeDifference = 0
                 /\ read.v.validity = 4
                 /\ read.v.payload = <<123, 125>>]_vars

\* C9: a request failed on the network, time has passed since, and it is
\* still the only request of its call
C9_FailedNotRetried ==
    /\ Len(fetches) = 1 /\ fetches[1].st = "failed"
    /\ clock > fetches[1].at
    /\ calls[fetches[1].call].st = "rejected"
    /\ calls[fetches[1].call].out = NetworkError

=============================================================================
